---- MODULE Spec2Model ----
(***************************************************************************)
(* A model of the MCP tutorial client (src/client/client.py) and server    *)
(* (src/server/server.py): newline-delimited JSON-RPC over the stdin and   *)
(* stdout pipes of a child process.                                        *)
(*                                                                         *)
(* JSON values are modelled by what the code inspects of them.  A request  *)
(* is a record [id, method, params]; params is a flat record whose "shape" *)
(* says whether the key is absent, holds a non-object value, or holds an   *)
(* object, and whose other fields are the keys the handlers read (Absent   *)
(* when the key is missing).  Formatted strings (f"Echo: {message}") are   *)
(* sequences of their parts.                                               *)
(***************************************************************************)
EXTENDS Integers, Sequences, FiniteSets, TLC

(***************************************************************************)
(* Bounds of the model.                                                    *)
(***************************************************************************)
\* the number of input lines the server reads in the server specification
MaxLines == 3

(***************************************************************************)
(* JSON values.                                                            *)
(***************************************************************************)
\* a key that is missing from a JSON object: dict.get(key) without default
Absent == "<absent>"

\* Python's None / JSON null in the id field
NullId == 0

\* str(None) inside an f-string
PyStr(v) == IF v = Absent THEN "None" ELSE v

\* params.get(key, "")
GetOrEmpty(v) == IF v = Absent THEN "" ELSE v

MkParams(shape, name, uri, args, message, expression, topic) ==
    [shape |-> shape, name |-> name, uri |-> uri, args |-> args,
     message |-> message, expression |-> expression, topic |-> topic]

\* the request has no "params" key
AbsentParams == MkParams("absent", Absent, Absent, "absent", Absent, Absent, Absent)

\* "params" holds a value that is not an object (null, a number, a list, a string)
NonObjParams == MkParams("nonobj", Absent, Absent, "absent", Absent, Absent, Absent)

\* "params": {}
EmptyParams == MkParams("obj", Absent, Absent, "absent", Absent, Absent, Absent)

(***************************************************************************)
(* MCPServer: the catalogs.                                                *)
(***************************************************************************)
ToolNames == {"echo", "calculate", "get_time"}

\* inputSchema.required of each tool
ToolRequired(tool) ==
    CASE tool = "echo" -> {"message"}
      [] tool = "calculate" -> {"expression"}
      [] OTHER -> {}

ResourceUris == {"resource://greeting", "resource://system_info"}

PromptNames == {"helpful_assistant"}

\* MCPServer(): the instance after __init__, which runs setup_tools,
\* setup_resources and setup_prompts; each catalog is kept as the set of its
\* entries
MCPServer == [tools |-> ToolNames, resources |-> ResourceUris, prompts |-> PromptNames]

RegisteredMethods ==
    {"initialize", "tools/list", "tools/call", "resources/list",
     "resources/read", "prompts/list", "prompts/get"}

(***************************************************************************)
(* Responses.                                                              *)
(***************************************************************************)
NoResult == [tag |-> "none", text |-> <<>>, items |-> {}]

SuccessResponse(request_id, tag, text, items) ==
    [id |-> request_id, hasResult |-> TRUE, hasError |-> FALSE, code |-> 0,
     message |-> <<>>, result |-> [tag |-> tag, text |-> text, items |-> items]]

ErrorResponse(request_id, code, message) ==
    [id |-> request_id, hasResult |-> FALSE, hasError |-> TRUE, code |-> code,
     message |-> message, result |-> NoResult]

\* placeholder where no response exists
NoResponse ==
    [id |-> NullId, hasResult |-> FALSE, hasError |-> FALSE, code |-> 0,
     message |-> <<>>, result |-> NoResult]

(***************************************************************************)
(* What a handler call does: it returns a response, raises an exception    *)
(* derived from Exception ("raise"), raises SystemExit, which is not       *)
(* derived from Exception ("exit"), or never comes back ("hang").  printed *)
(* holds the lines the handler itself wrote to standard output.            *)
(***************************************************************************)
Return(response) ==
    [outcome |-> "return", response |-> response, exc |-> <<>>, printed |-> <<>>]

Raise(exc) ==
    [outcome |-> "raise", response |-> NoResponse, exc |-> exc, printed |-> <<>>]

SystemExit ==
    [outcome |-> "exit", response |-> NoResponse, exc |-> <<"SystemExit">>,
     printed |-> <<>>]

Hang == [outcome |-> "hang", response |-> NoResponse, exc |-> <<>>, printed |-> <<>>]

\* the handler wrote a line to standard output before it ended
Printed(text, did) == [did EXCEPT !.printed = <<text>>]

\* obj.get(...) on a value that is not a dict
AttributeError == <<"object has no attribute 'get'">>

(***************************************************************************)
(* eval(expression) of the calculate tool, on the expressions of the       *)
(* model: Python's evaluator runs any expression, not only arithmetic.     *)
(***************************************************************************)
ArithmeticExpressions ==
    {"10 + 5 * 2", "(10 + 5) * 2", "10 - 4 - 3", "2 * 3 - 4 * 5", "-3 * (2 + 4)",
     "10 / 2", "7 / 2", "1 / 3", "1/0", "10 + * 2"}

Expressions ==
    ArithmeticExpressions
    \cup {"import os", "len('abc')", "exit()", "any(iter(int, 1))", "print(1)",
          "self.tools.clear()"}

\* the tokens of an expression: a number, an operator or parenthesis, a
\* name (identifier or keyword), a string literal, a comma
Num(n) == [k |-> "num", n |-> n]

Sym(k) == [k |-> k, n |-> 0]

\* Python's tokenizer on the expressions of the model
Tokens(expression) ==
    CASE expression = "10 + 5 * 2" -> <<Num(10), Sym("+"), Num(5), Sym("*"), Num(2)>>
      [] expression = "(10 + 5) * 2" ->
            <<Sym("("), Num(10), Sym("+"), Num(5), Sym(")"), Sym("*"), Num(2)>>
      [] expression = "10 - 4 - 3" -> <<Num(10), Sym("-"), Num(4), Sym("-"), Num(3)>>
      [] expression = "2 * 3 - 4 * 5" ->
            <<Num(2), Sym("*"), Num(3), Sym("-"), Num(4), Sym("*"), Num(5)>>
      [] expression = "-3 * (2 + 4)" ->
            <<Sym("-"), Num(3), Sym("*"), Sym("("), Num(2), Sym("+"), Num(4), Sym(")")>>
      [] expression = "10 / 2" -> <<Num(10), Sym("/"), Num(2)>>
      [] expression = "7 / 2" -> <<Num(7), Sym("/"), Num(2)>>
      [] expression = "1 / 3" -> <<Num(1), Sym("/"), Num(3)>>
      [] expression = "1/0" -> <<Num(1), Sym("/"), Num(0)>>
      [] expression = "10 + * 2" -> <<Num(10), Sym("+"), Sym("*"), Num(2)>>
      [] expression = "" -> <<>>
      [] expression = "import os" -> <<Sym("name"), Sym("name")>>
      [] expression = "len('abc')" -> <<Sym("name"), Sym("("), Sym("str"), Sym(")")>>
      [] expression = "exit()" -> <<Sym("name"), Sym("("), Sym(")")>>
      [] expression = "any(iter(int, 1))" ->
            <<Sym("name"), Sym("("), Sym("name"), Sym("("), Sym("name"), Sym(","),
              Num(1), Sym(")"), Sym(")")>>
      [] expression = "print(1)" -> <<Sym("name"), Sym("("), Num(1), Sym(")")>>
      [] expression = "self.tools.clear()" ->
            <<Sym("name"), Sym("."), Sym("name"), Sym("."), Sym("name"), Sym("("),
              Sym(")")>>
      [] OTHER -> <<Sym("name")>>

ArithmeticTokens == {"num", "+", "-", "*", "/", "(", ")"}

\* numeric literals, + - * / and parentheses only
IsArithmetic(toks) == \A i \in DOMAIN toks : toks[i].k \in ArithmeticTokens

(***************************************************************************)
(* Python's arithmetic on the values of such expressions.  A value is an   *)
(* int, or a float once a division took part; it is kept as the fraction   *)
(* num/den in lowest terms.  A float holds num/den exactly when den is a   *)
(* power of two (the numbers of the model are small); otherwise it holds   *)
(* the nearest double, and exact is false from then on.  err is the        *)
(* message of the exception the evaluation raised, if any.                 *)
(***************************************************************************)
Abs(n) == IF n < 0 THEN -n ELSE n

RECURSIVE GCD(_, _)
GCD(a, b) == IF b = 0 THEN a ELSE GCD(b, a % b)

Value(num, den, float, exact) ==
    LET g == GCD(Abs(num), den) IN
    [num |-> num \div g, den |-> den \div g, float |-> float, exact |-> exact, err |-> ""]

IntValue(n) == Value(n, 1, FALSE, TRUE)

Raised(err) == [num |-> 0, den |-> 1, float |-> FALSE, exact |-> TRUE, err |-> err]

PowerOfTwo(n) == n \in {1, 2, 4, 8, 16, 32, 64}

\* a division that floors, as the // operator does
Divide_Floor(a, b) ==
    IF b.num = 0 THEN Raised("division by zero")
    ELSE Value((a.num * b.den) \div (a.den * b.num), 1, a.float \/ b.float,
               a.exact /\ b.exact)

\* a / b: true division, the result is a float
Divide(a, b) ==
    IF b.num = 0
    THEN Raised(IF a.float \/ b.float THEN "float division by zero"
                ELSE "division by zero")
    ELSE LET n == a.num * b.den
             d == a.den * b.num
             q == IF d < 0 THEN Value(-n, -d, TRUE, TRUE) ELSE Value(n, d, TRUE, TRUE)
         IN  [q EXCEPT !.exact = a.exact /\ b.exact /\ PowerOfTwo(q.den)]

\* a op b: the operands are evaluated left to right, then the operator
Apply(op, a, b) ==
    IF a.err # "" THEN a
    ELSE IF b.err # "" THEN b
    ELSE CASE op = "+" -> Value(a.num * b.den + b.num * a.den, a.den * b.den,
                                a.float \/ b.float, a.exact /\ b.exact)
           [] op = "-" -> Value(a.num * b.den - b.num * a.den, a.den * b.den,
                                a.float \/ b.float, a.exact /\ b.exact)
           [] op = "*" -> Value(a.num * b.num, a.den * b.den,
                                a.float \/ b.float, a.exact /\ b.exact)
           [] OTHER -> Divide(a, b)

Negate(a) == IF a.err # "" THEN a ELSE [a EXCEPT !.num = -a.num]

(***************************************************************************)
(* Python's expression grammar on arithmetic tokens:                       *)
(*   expr   ::= term (("+" | "-") term)*                                   *)
(*   term   ::= factor (("*" | "/") factor)*                               *)
(*   factor ::= ("+" | "-") factor | NUMBER | "(" expr ")"                 *)
(* A parse gives the value and the tokens that are left, or fails.         *)
(***************************************************************************)
Parsed(val, rest) == [ok |-> TRUE, val |-> val, rest |-> rest]

NoParse == [ok |-> FALSE, val |-> IntValue(0), rest |-> <<>>]

Starts(toks, kinds) == toks # <<>> /\ Head(toks).k \in kinds

RECURSIVE ParseExpr(_), ExprRest(_, _), ParseTerm(_), TermRest(_, _), ParseFactor(_)
RECURSIVE TermRest_NoPrecedence(_, _)

\* a factor with a sign before it
Signed(sign, r) ==
    IF ~r.ok THEN NoParse
    ELSE IF sign = "-" THEN Parsed(Negate(r.val), r.rest)
    ELSE r

\* an expression in parentheses, once the expression is parsed
Closing(r) ==
    IF r.ok /\ Starts(r.rest, {")"}) THEN Parsed(r.val, Tail(r.rest)) ELSE NoParse

ParseFactor(toks) ==
    IF toks = <<>> THEN NoParse
    ELSE CASE Head(toks).k = "num" -> Parsed(IntValue(Head(toks).n), Tail(toks))
           [] Head(toks).k \in {"+", "-"} -> Signed(Head(toks).k, ParseFactor(Tail(toks)))
           [] Head(toks).k = "(" -> Closing(ParseExpr(Tail(toks)))
           [] OTHER -> NoParse

\* a term that takes + and - as it takes * and /: the operators are applied
\* from left to right, whatever they are
TermRest_NoPrecedence(acc, toks) ==
    IF Starts(toks, {"*", "/", "+", "-"})
    THEN (LET r == ParseFactor(Tail(toks)) IN
          IF r.ok THEN TermRest_NoPrecedence(Apply(Head(toks).k, acc, r.val), r.rest)
          ELSE NoParse)
    ELSE Parsed(acc, toks)

\* acc op r, and the rest of the term
TermStep(acc, op, r) ==
    IF r.ok THEN TermRest(Apply(op, acc, r.val), r.rest) ELSE NoParse

TermRest(acc, toks) ==
    IF Starts(toks, {"*", "/"}) THEN TermStep(acc, Head(toks).k, ParseFactor(Tail(toks)))
    ELSE Parsed(acc, toks)

\* the factor a term begins with, and the rest of the term
TermFrom(r) == IF r.ok THEN TermRest(r.val, r.rest) ELSE NoParse

ParseTerm(toks) == TermFrom(ParseFactor(toks))

\* acc op r, and the rest of the expression
ExprStep(acc, op, r) ==
    IF r.ok THEN ExprRest(Apply(op, acc, r.val), r.rest) ELSE NoParse

ExprRest(acc, toks) ==
    IF Starts(toks, {"+", "-"}) THEN ExprStep(acc, Head(toks).k, ParseTerm(Tail(toks)))
    ELSE Parsed(acc, toks)

\* the term an expression begins with, and the rest of the expression
ExprFrom(r) == IF r.ok THEN ExprRest(r.val, r.rest) ELSE NoParse

ParseExpr(toks) == ExprFrom(ParseTerm(toks))

\* the text that stands where the digits of a rounded double would
Rounded == "<nearest double>"

\* str() of a value: an int in decimal; a float with its fraction, ".0" for
\* a whole number
PyStrOfValue(v) ==
    IF ~v.float THEN ToString(v.num)
    ELSE IF ~v.exact THEN Rounded
    ELSE IF v.den = 1 THEN ToString(v.num) \o ".0"
    ELSE IF v.den = 2 THEN
        (IF v.num < 0 THEN "-" ELSE "") \o ToString(Abs(v.num) \div 2) \o ".5"
    ELSE Rounded

\* str() of the SyntaxError of a one-line expression the compiler rejects
SyntaxError(toks) ==
    IF toks = <<>> THEN "invalid syntax (<string>, line 0)"
    ELSE "invalid syntax (<string>, line 1)"

\* the outcome of eval and str, given the parse of the whole expression
Evaluated(toks, r) ==
    IF ~r.ok \/ r.rest # <<>> THEN [kind |-> "raise", text |-> SyntaxError(toks)]
    ELSE IF r.val.err # "" THEN [kind |-> "raise", text |-> r.val.err]
    ELSE [kind |-> "value", text |-> PyStrOfValue(r.val)]

\* eval of an expression of arithmetic tokens followed by str: the whole
\* expression is compiled before any of it is evaluated
EvalArithmetic(toks) == Evaluated(toks, ParseExpr(toks))

\* eval of the other expressions of the model: Python runs whatever the
\* expression says
EvalOther(expression, toks) ==
    CASE expression = "len('abc')" -> [kind |-> "value", text |-> "3"]
      [] expression = "import os" -> [kind |-> "raise", text |-> SyntaxError(toks)]
      [] expression = "exit()" -> [kind |-> "exit", text |-> ""]
      [] expression = "any(iter(int, 1))" -> [kind |-> "hang", text |-> ""]
      [] expression = "print(1)" -> [kind |-> "print", text |-> "1"]
      [] expression = "self.tools.clear()" -> [kind |-> "value", text |-> "None"]
      [] OTHER -> [kind |-> "raise", text |-> SyntaxError(toks)]

\* eval, given the tokens of the expression
EvalTokens(expression, toks) ==
    IF IsArithmetic(toks) THEN EvalArithmetic(toks) ELSE EvalOther(expression, toks)

PyEval(expression) == EvalTokens(expression, Tokens(expression))

\* the instance after eval(expression): the expression is evaluated in the
\* scope of handle_tool_call, where self is a local name
SelfAfterEval(self, expression) ==
    IF expression = "self.tools.clear()" THEN [self EXCEPT !.tools = {}] ELSE self

\* datetime.datetime.now().strftime(...)
Now == "<clock>"

\* json.dumps of platform.system(), python_version(), architecture()
SystemInfo == "<platform>"

(***************************************************************************)
(* MCPServer: the handlers.                                                *)
(***************************************************************************)
handle_initialize(request_id, params) ==
    Return(SuccessResponse(request_id, "initialize", <<"2024-11-05">>, {}))

handle_tools_list(self, request_id) ==
    Return(SuccessResponse(request_id, "tools", <<>>, self.tools))

ToolText(request_id, text) ==
    Return(SuccessResponse(request_id, "content", text, {}))

\* the calculate branch once eval is through: str() of the value, or the
\* message of the exception that "except Exception" caught
Calculated(request_id, r) ==
    CASE r.kind = "value" -> ToolText(request_id, <<r.text>>)
      [] r.kind = "raise" -> ToolText(request_id, <<"Error calculating: ", r.text>>)
      [] r.kind = "exit" -> SystemExit
      [] r.kind = "print" ->
            \* print writes the line and returns None
            Printed(r.text, ToolText(request_id, <<"None">>))
      [] OTHER -> Hang

handle_tool_call_unchecked(request_id, params) ==
    IF params.shape # "obj" THEN Raise(AttributeError)
    ELSE IF params.name = "calculate" THEN
        IF params.args = "nonobj" THEN Raise(AttributeError)
        ELSE Calculated(request_id, PyEval(GetOrEmpty(params.expression)))
    ELSE IF params.name = "get_time" THEN ToolText(request_id, <<Now>>)
    ELSE IF params.args = "nonobj" THEN Raise(AttributeError)
    ELSE ToolText(request_id, <<"Echo: ", GetOrEmpty(params.message)>>)

handle_tool_call(request_id, params) ==
    IF params.shape # "obj" THEN Raise(AttributeError)
    ELSE IF params.name = "echo" THEN
        IF params.args = "nonobj" THEN Raise(AttributeError)
        ELSE ToolText(request_id, <<"Echo: ", GetOrEmpty(params.message)>>)
    ELSE IF params.name = "calculate" THEN
        IF params.args = "nonobj" THEN Raise(AttributeError)
        ELSE Calculated(request_id, PyEval(GetOrEmpty(params.expression)))
    ELSE IF params.name = "get_time" THEN ToolText(request_id, <<Now>>)
    ELSE Return(ErrorResponse(request_id, -32602,
                              <<"Unknown tool: ", PyStr(params.name)>>))

handle_resources_list(self, request_id) ==
    Return(SuccessResponse(request_id, "resources", <<>>, self.resources))

handle_resource_read(request_id, params) ==
    IF params.shape # "obj" THEN Raise(AttributeError)
    ELSE LET uri == GetOrEmpty(params.uri) IN
         IF uri = "resource://greeting" THEN
             Return(SuccessResponse(request_id, "contents",
                        <<"Hello! Welcome to the MCP Tutorial Server!">>, {uri}))
         ELSE IF uri = "resource://system_info" THEN
             Return(SuccessResponse(request_id, "contents", <<SystemInfo>>, {uri}))
         ELSE Return(ErrorResponse(request_id, -32602,
                                   <<"Unknown resource: ", uri>>))

handle_prompts_list(self, request_id) ==
    Return(SuccessResponse(request_id, "prompts", <<>>, self.prompts))

handle_prompt_get(request_id, params) ==
    IF params.shape # "obj" THEN Raise(AttributeError)
    ELSE IF params.name = "helpful_assistant" THEN
        IF params.args = "nonobj" THEN Raise(AttributeError)
        ELSE LET topic == IF params.topic = Absent THEN "general assistance"
                          ELSE params.topic IN
             Return(SuccessResponse(request_id, "messages",
                 <<"You are a helpful assistant specialized in ", topic,
                   ". Please provide clear, accurate, and helpful responses.">>, {}))
    ELSE Return(ErrorResponse(request_id, -32602,
                              <<"Unknown prompt: ", PyStr(params.name)>>))

(***************************************************************************)
(* MCPServer.handle_request.  The result names the handler that was        *)
(* invoked ("none" when none was) and what that handler did.               *)
(***************************************************************************)
\* request.get("params", {})
ParamsOf(request) ==
    IF request.params.shape = "absent" THEN EmptyParams ELSE request.params

\* the if/elif chain on method
Dispatch(self, method, request_id, params) ==
    CASE method = "initialize" ->
            [handler |-> "handle_initialize", did |-> handle_initialize(request_id, params)]
      [] method = "tools/list" ->
            [handler |-> "handle_tools_list", did |-> handle_tools_list(self, request_id)]
      [] method = "tools/call" ->
            [handler |-> "handle_tool_call", did |-> handle_tool_call(request_id, params)]
      [] method = "resources/list" ->
            [handler |-> "handle_resources_list", did |-> handle_resources_list(self, request_id)]
      [] method = "resources/read" ->
            [handler |-> "handle_resource_read", did |-> handle_resource_read(request_id, params)]
      [] method = "prompts/list" ->
            [handler |-> "handle_prompts_list", did |-> handle_prompts_list(self, request_id)]
      [] method = "prompts/get" ->
            [handler |-> "handle_prompt_get", did |-> handle_prompt_get(request_id, params)]
      [] OTHER -> [handler |-> "none", did |-> Hang]

MethodNotFound_InternalCode(request_id, method) ==
    ErrorResponse(request_id, -32603, <<"Method not found: ", PyStr(method)>>)

\* the else branch of the chain
MethodNotFound(request_id, method) ==
    ErrorResponse(request_id, -32601, <<"Method not found: ", PyStr(method)>>)

\* the except Exception clause
InternalError(request_id, exc) ==
    ErrorResponse(request_id, -32603, <<"Internal error: ">> \o exc)

\* the try statement around the chain, given what the chain did (d)
Tried(request_id, method, d) ==
    IF d.handler = "none" THEN
        [handler |-> "none", handlerDid |-> "none",
         did |-> Return(MethodNotFound(request_id, method))]
    ELSE IF d.did.outcome = "raise" THEN
        [handler |-> d.handler, handlerDid |-> "raise",
         did |-> Return(InternalError(request_id, d.did.exc))]
    ELSE [handler |-> d.handler, handlerDid |-> d.did.outcome, did |-> d.did]

handle_request(self, request) ==
    Tried(request.id, request.method,
          Dispatch(self, request.method, request.id, ParamsOf(request)))

\* whether handle_request on these params reaches eval in handle_tool_call
ReachesEval(method, params) ==
    /\ method = "tools/call"
    /\ params.shape = "obj"
    /\ params.name = "calculate"
    /\ params.args # "nonobj"

\* the instance after handle_request(request): the handlers assign to no
\* attribute; eval does what the expression says
SelfAfter(self, request) ==
    IF ReachesEval(request.method, ParamsOf(request))
    THEN SelfAfterEval(self, GetOrEmpty(ParamsOf(request).expression))
    ELSE self

(***************************************************************************)
(* The messages on the wire.  A JSON value is null, a bool, an int, a      *)
(* string, a list or an object (a dict with string keys, in insertion      *)
(* order).  A string is a sequence of pieces: a run of characters that     *)
(* JSON writes as they are, or one character that it does not: the quote,  *)
(* the backslash, the newline, a character outside ASCII (U+00E9), and     *)
(* the space, which strip() looks for.  A text is a sequence of such       *)
(* pieces, of digits and of punctuation.                                   *)
(***************************************************************************)
JNull == [t |-> "null"]

JBool(b) == [t |-> "bool", b |-> b]

JInt(n) == [t |-> "int", n |-> n]

JStr(s) == [t |-> "str", s |-> s]

JList(items) == [t |-> "list", items |-> items]

JObj(members) == [t |-> "obj", members |-> members]

\* a string that is one run of ordinary characters
S(run) == JStr(<<run>>)

\* a member of an object: its key, a run of ordinary characters, and value
M(key, value) == <<(<<key>>), value>>

Digit(d) == ToString(d)

DigitChars == {Digit(d) : d \in 0..9}

DigitValue(ch) == CHOOSE d \in 0..9 : Digit(d) = ch

\* the decimal digits of an int, as json.dumps writes them
RECURSIVE Digits(_)
Digits(n) ==
    IF n < 0 THEN <<"-">> \o Digits(-n)
    ELSE IF n < 10 THEN <<Digit(n)>>
    ELSE Digits(n \div 10) \o <<Digit(n % 10)>>

\* a piece of a string written as it is, whatever it is
EscapePiece_Raw(piece) == <<piece>>

\* a piece of a string between the quotes: ensure_ascii is on, so the
\* output holds ASCII only
EscapePiece(piece) ==
    CASE piece = "\"" -> <<"\\", "\"">>
      [] piece = "\\" -> <<"\\", "\\">>
      [] piece = "\n" -> <<"\\", "n">>
      [] piece = "U+00E9" -> <<"\\", "u00e9">>
      [] OTHER -> <<piece>>

RECURSIVE EscapePieces(_)
EscapePieces(s) ==
    IF s = <<>> THEN <<>> ELSE EscapePiece(Head(s)) \o EscapePieces(Tail(s))

DumpsStr(s) == <<"\"">> \o EscapePieces(s) \o <<"\"">>

\* json.dumps with its default separators ", " and ": "
RECURSIVE dumps(_), DumpsItems(_), DumpsMembers(_)
dumps(v) ==
    CASE v.t = "null" -> <<"null">>
      [] v.t = "bool" -> <<IF v.b THEN "true" ELSE "false">>
      [] v.t = "int" -> Digits(v.n)
      [] v.t = "str" -> DumpsStr(v.s)
      [] v.t = "list" -> <<"[">> \o DumpsItems(v.items) \o <<"]">>
      [] OTHER -> <<"{">> \o DumpsMembers(v.members) \o <<"}">>

DumpsItems(items) ==
    IF items = <<>> THEN <<>>
    ELSE dumps(Head(items))
         \o (IF Tail(items) = <<>> THEN <<>> ELSE <<",", " ">> \o DumpsItems(Tail(items)))

DumpsMembers(members) ==
    IF members = <<>> THEN <<>>
    ELSE DumpsStr(Head(members)[1]) \o <<":", " ">> \o dumps(Head(members)[2])
         \o (IF Tail(members) = <<>> THEN <<>>
             ELSE <<",", " ">> \o DumpsMembers(Tail(members)))

Whitespace == {" ", "\n", "\r", "\t"}

RECURSIVE SkipWhitespace(_)
SkipWhitespace(text) ==
    IF text # <<>> /\ Head(text) \in Whitespace THEN SkipWhitespace(Tail(text))
    ELSE text

RECURSIVE DropTrailingWhitespace(_)
DropTrailingWhitespace(text) ==
    IF text # <<>> /\ text[Len(text)] \in Whitespace
    THEN DropTrailingWhitespace(SubSeq(text, 1, Len(text) - 1))
    ELSE text

\* str.strip(): the whitespace at both ends goes
strip(text) == DropTrailingWhitespace(SkipWhitespace(text))

\* the result of a parse: the value and the text that is left, or a
\* JSONDecodeError
Got(val, rest) == [ok |-> TRUE, val |-> val, rest |-> rest]

JSONDecodeError == [ok |-> FALSE, val |-> JNull, rest |-> <<>>]

RECURSIVE ParseDigits(_, _)
ParseDigits(acc, text) ==
    IF text # <<>> /\ Head(text) \in DigitChars
    THEN ParseDigits(acc * 10 + DigitValue(Head(text)), Tail(text))
    ELSE Got(acc, text)

ParseNumber(text) ==
    LET neg == text # <<>> /\ Head(text) = "-"
        digits == IF neg THEN Tail(text) ELSE text
    IN  IF digits = <<>> \/ Head(digits) \notin DigitChars THEN JSONDecodeError
        ELSE LET r == ParseDigits(0, digits) IN
             Got(JInt(IF neg THEN -r.val ELSE r.val), r.rest)

\* the pieces of a string up to its closing quote: an escape stands for its
\* character, a bare control character is refused
RECURSIVE ParseString(_, _)
ParseString(acc, text) ==
    IF text = <<>> THEN JSONDecodeError
    ELSE IF Head(text) = "\"" THEN Got(acc, Tail(text))
    ELSE IF Head(text) = "\\" THEN
        IF Tail(text) = <<>> THEN JSONDecodeError
        ELSE LET e == text[2]
                 rest == Tail(Tail(text))
             IN  CASE e = "\"" -> ParseString(Append(acc, "\""), rest)
                   [] e = "\\" -> ParseString(Append(acc, "\\"), rest)
                   [] e = "n" -> ParseString(Append(acc, "\n"), rest)
                   [] e = "u00e9" -> ParseString(Append(acc, "U+00E9"), rest)
                   [] OTHER -> JSONDecodeError
    ELSE IF Head(text) \in {"\n", "\r", "\t"} THEN JSONDecodeError
    ELSE ParseString(Append(acc, Head(text)), Tail(text))

RECURSIVE ParseValue(_), ParseItems(_, _), ParseMembers(_, _)
ParseValue(text) ==
    LET t == SkipWhitespace(text) IN
    IF t = <<>> THEN JSONDecodeError
    ELSE CASE Head(t) = "null" -> Got(JNull, Tail(t))
           [] Head(t) = "true" -> Got(JBool(TRUE), Tail(t))
           [] Head(t) = "false" -> Got(JBool(FALSE), Tail(t))
           [] Head(t) = "\"" ->
                LET r == ParseString(<<>>, Tail(t)) IN
                IF r.ok THEN Got(JStr(r.val), r.rest) ELSE JSONDecodeError
           [] Head(t) = "[" ->
                LET t2 == SkipWhitespace(Tail(t)) IN
                IF t2 # <<>> /\ Head(t2) = "]" THEN Got(JList(<<>>), Tail(t2))
                ELSE ParseItems(<<>>, t2)
           [] Head(t) = "{" ->
                LET t2 == SkipWhitespace(Tail(t)) IN
                IF t2 # <<>> /\ Head(t2) = "}" THEN Got(JObj(<<>>), Tail(t2))
                ELSE ParseMembers(<<>>, t2)
           [] OTHER -> ParseNumber(t)

\* the items of a list after "[" or ","
ParseItems(acc, text) ==
    LET r == ParseValue(text) IN
    IF ~r.ok THEN JSONDecodeError
    ELSE LET t == SkipWhitespace(r.rest) IN
         IF t = <<>> THEN JSONDecodeError
         ELSE IF Head(t) = "," THEN ParseItems(Append(acc, r.val), Tail(t))
         ELSE IF Head(t) = "]" THEN Got(JList(Append(acc, r.val)), Tail(t))
         ELSE JSONDecodeError

\* the members of an object after "{" or ",": a key in quotes, a colon, a
\* value
ParseMembers(acc, text) ==
    LET t == SkipWhitespace(text) IN
    IF t = <<>> \/ Head(t) # "\"" THEN JSONDecodeError
    ELSE LET k == ParseString(<<>>, Tail(t)) IN
         IF ~k.ok THEN JSONDecodeError
         ELSE LET t2 == SkipWhitespace(k.rest) IN
              IF t2 = <<>> \/ Head(t2) # ":" THEN JSONDecodeError
              ELSE LET r == ParseValue(Tail(t2)) IN
                   IF ~r.ok THEN JSONDecodeError
                   ELSE LET t3 == SkipWhitespace(r.rest)
                            members == Append(acc, <<k.val, r.val>>)
                        IN  IF t3 = <<>> THEN JSONDecodeError
                            ELSE IF Head(t3) = "," THEN ParseMembers(members, Tail(t3))
                            ELSE IF Head(t3) = "}" THEN Got(JObj(members), Tail(t3))
                            ELSE JSONDecodeError

\* json.loads: one value and nothing but whitespace after it
loads(text) ==
    LET r == ParseValue(text) IN
    IF r.ok /\ SkipWhitespace(r.rest) = <<>> THEN Got(r.val, <<>>)
    ELSE JSONDecodeError

(***************************************************************************)
(* Input lines of the server.  A line is empty ("blank"), whitespace only  *)
(* ("spaces"), not JSON ("garbage"), JSON that is not an object            *)
(* ("nonobj"), or a JSON object, read as a request; "eof" is what          *)
(* sys.stdin.readline returns at end of file: ''.                          *)
(***************************************************************************)
NoRequest == [id |-> NullId, method |-> Absent, params |-> AbsentParams]

RequestLine(request) == [kind |-> "request", req |-> request]

OtherLine(kind) == [kind |-> kind, req |-> NoRequest]

\* ids of the requests in the server specification: null, 1, 2
LineIds == {NullId, 1, 2}

ToolCallParams ==
    {MkParams("obj", n, Absent, a, Absent, Absent, Absent) :
        n \in ToolNames \cup {"no_such_tool", Absent}, a \in {"absent", "nonobj", "obj"}}
    \cup {MkParams("obj", "echo", Absent, "obj", "hi", Absent, Absent)}
    \cup {MkParams("obj", "calculate", Absent, "obj", Absent, e, Absent) : e \in Expressions}

ResourceReadParams ==
    {MkParams("obj", Absent, u, "absent", Absent, Absent, Absent) :
        u \in ResourceUris \cup {"resource://unknown", Absent}}

PromptGetParams ==
    {MkParams("obj", n, Absent, a, Absent, Absent, Absent) :
        n \in PromptNames \cup {"no_such_prompt", Absent}, a \in {"absent", "nonobj", "obj"}}
    \cup {MkParams("obj", "helpful_assistant", Absent, "obj", Absent, Absent, "python")}

ParamsFor(method) ==
    {AbsentParams, NonObjParams}
    \cup CASE method = "tools/call" -> ToolCallParams
           [] method = "resources/read" -> ResourceReadParams
           [] method = "prompts/get" -> PromptGetParams
           [] OTHER -> {EmptyParams}

LineMethods == RegisteredMethods \cup {"ping", "tools/run", Absent}

Lines ==
    {OtherLine(k) : k \in {"blank", "spaces", "garbage", "nonobj", "eof"}}
    \cup UNION {{RequestLine([id |-> i, method |-> m, params |-> p]) :
                    i \in LineIds, p \in ParamsFor(m)} : m \in LineMethods}

(***************************************************************************)
(* run_stdio_server: one iteration of the while loop on one input line.    *)
(* act says how the iteration ends: "skip" (continue without writing),     *)
(* "write" (a response line is printed), "exit" (an exception that no      *)
(* except clause catches leaves the loop and ends the process), "hang"     *)
(* (the iteration never ends).                                             *)
(***************************************************************************)
Iteration(act, response, logged, handler, handlerDid) ==
    [act |-> act, response |-> response, logged |-> logged,
     handler |-> handler, handlerDid |-> handlerDid, stray |-> <<>>]

\* the lines that reached standard output during the iteration without
\* being its response: what the handler printed
WithStray(it, printed) == [it EXCEPT !.stray = printed]

\* a JSONDecodeError clause that answers with a parse error
OnJSONDecodeError_Replies ==
    Iteration("write", ErrorResponse(NullId, -32700, <<"Parse error">>),
              TRUE, "none", "none")

\* except json.JSONDecodeError: log, continue
OnJSONDecodeError == Iteration("skip", NoResponse, TRUE, "none", "none")

\* an except Exception clause that only logs
OnException_LogsOnly(exc) == Iteration("skip", NoResponse, TRUE, "none", "none")

\* except Exception: log, print an error response with id None
OnException(exc) ==
    Iteration("write", ErrorResponse(NullId, -32603, <<"Internal error: ">> \o exc),
              TRUE, "none", "none")

\* the text of a line that is not a request: nothing at end of file, a
\* newline, whitespace and a newline, a word that is not JSON, a JSON list
LineText(line) ==
    CASE line.kind = "eof" -> <<>>
      [] line.kind = "blank" -> <<"\n">>
      [] line.kind = "spaces" -> <<" ", "\t", "\n">>
      [] line.kind = "nonobj" -> <<"[", "1", "]", "\n">>
      [] OTHER -> <<"garbage", "\n">>

\* a blank line that is answered
OnBlankLine_Replies ==
    Iteration("write", ErrorResponse(NullId, -32600, <<"Invalid Request">>),
              FALSE, "none", "none")

\* if not line.strip(): continue
OnBlankLine == Iteration("skip", NoResponse, FALSE, "none", "none")

\* the iteration on a line that is not a request, given the line stripped
Unrequested(text) ==
    IF text = <<>> THEN OnBlankLine
    ELSE IF ~loads(text).ok THEN OnJSONDecodeError
    ELSE \* request.get raises AttributeError outside handle_request's try
         OnException(AttributeError)

\* the iteration on a request, given what handle_request did (r)
Requested(r) ==
    CASE r.did.outcome = "return" ->
            WithStray(Iteration("write", r.did.response, FALSE, r.handler, r.handlerDid),
                      r.did.printed)
      [] r.did.outcome = "exit" ->
            Iteration("exit", NoResponse, FALSE, r.handler, r.handlerDid)
      [] OTHER ->
            Iteration("hang", NoResponse, FALSE, r.handler, r.handlerDid)

LoopBody(self, line) ==
    IF line.kind # "request" THEN Unrequested(strip(LineText(line)))
    ELSE Requested(handle_request(self, line.req))

\* the state of the server process after an iteration
StateAfter(act) ==
    CASE act = "exit" -> "exited"
      [] act = "hang" -> "hung"
      [] OTHER -> "running"

(***************************************************************************)
(* State.                                                                  *)
(***************************************************************************)
VARIABLES
    \* run_stdio_server, fed input lines directly (the server specification)
    srvState,       \* "running", "exited" or "hung"
    srvRead,        \* the number of lines read
    srvLast,        \* the last line read and what the iteration on it did
    srvDecoded,     \* the ids of the values json.loads returned, in order
                    \* (null for a value without an id)
    srvWritten,     \* the ids of the responses written, in order
    server,         \* server = MCPServer(): the instance and its catalogs
    \* MCPClient
    request_id,     \* self.request_id
    process,        \* self.process: 0 is None, otherwise the child it refers to
    initialized,    \* self.initialized
    \* the children spawned by connect_to_server and their pipes
    nprocs,         \* how many children were spawned
    procs,          \* per child: the server's state, its stdin, the StreamReader of its stdout
    \* the coroutines that call the client's methods
    tasks,
    \* the call that finished last: what it returned or raised
    last,
    \* the message that was sent last, the line json.dumps made of it and
    \* what json.loads made of the line at the other end
    wire

srvVars == <<srvState, srvRead, srvLast, srvDecoded, srvWritten, server>>

clientVars == <<request_id, process, initialized, nprocs, procs, tasks, last>>

vars == <<srvState, srvRead, srvLast, srvDecoded, srvWritten, server,
          request_id, process, initialized, nprocs, procs, tasks, last, wire>>

(***************************************************************************)
(* The server specification: run_stdio_server reads MaxLines lines.        *)
(***************************************************************************)
SrvInit ==
    /\ srvState = "running"
    /\ srvRead = 0
    /\ srvLast = [line |-> OtherLine("none"),
                  it |-> Iteration("skip", NoResponse, FALSE, "none", "none")]
    /\ srvDecoded = <<>>
    /\ srvWritten = <<>>
    /\ server = MCPServer

\* the state after the iteration it on a line
Iterated(line, it) ==
    /\ srvLast' = [line |-> line, it |-> it]
    /\ srvState' = StateAfter(it.act)
    /\ srvDecoded' = IF line.kind \in {"request", "nonobj"}
                     THEN Append(srvDecoded, line.req.id) ELSE srvDecoded
    /\ srvWritten' = IF it.act = "write"
                     THEN Append(srvWritten, it.response.id) ELSE srvWritten
    /\ server' = IF line.kind = "request" THEN SelfAfter(server, line.req) ELSE server

\* one iteration of the while loop of run_stdio_server
ServerIteration ==
    /\ srvState = "running"
    /\ srvRead < MaxLines
    /\ \E line \in Lines :
        \* once the stream is at end of file, readline keeps returning ''
        /\ srvLast.line.kind = "eof" => line.kind = "eof"
        /\ Iterated(line, LoopBody(server, line))
    /\ srvRead' = srvRead + 1
    /\ UNCHANGED <<clientVars, wire>>

(***************************************************************************)
(* The client specification: coroutines calling the methods of one         *)
(* MCPClient, the children it spawns, and the pipes between them.          *)
(***************************************************************************)
\* request_id stops growing here
MaxId == 3

\* connect_to_server spawns at most this many children
MaxProcs == 2

\* the request lines that the stdin pipe of a child and the transport's write
\* buffer take up before drain() suspends the writer
PipeCapacity == 2

\* the timeout of wait_for(readline, timeout=10.0), in time units
RequestTimeout == 10

\* what the clocks of a call read once it is late: more than the timeout
Late == RequestTimeout + 1

\* the coroutines that share the client
Tasks == {1, 2}

\* self.process is None; no coroutine waits on a StreamReader
None == 0

GatedOps ==
    {"list_tools", "call_tool", "list_resources", "read_resource",
     "list_prompts", "get_prompt"}

Call(op, method, params) == [op |-> op, method |-> method, params |-> params]

\* the params initialize sends: an object none of whose keys the server reads
InitializeParams == EmptyParams

\* the calls of the model, each with the request send_request builds for it;
\* "if params:" leaves the params key out when the caller passed none
Calls ==
    {Call("send_request", "ping", AbsentParams),
     Call("send_request", "tools/call",
          MkParams("obj", "calculate", Absent, "obj", Absent, "exit()", Absent)),
     Call("initialize", "initialize", InitializeParams),
     Call("list_tools", "tools/list", AbsentParams),
     Call("call_tool", "tools/call",
          MkParams("obj", "echo", Absent, "obj", "hi", Absent, Absent)),
     Call("call_tool", "tools/call",
          MkParams("obj", "no_such_tool", Absent, "obj", Absent, Absent, Absent)),
     Call("call_tool", "tools/call",
          MkParams("obj", "calculate", Absent, "obj", Absent, "exit()", Absent)),
     Call("list_resources", "resources/list", AbsentParams),
     Call("read_resource", "resources/read",
          MkParams("obj", Absent, "resource://greeting", "absent", Absent, Absent, Absent)),
     Call("list_prompts", "prompts/list", AbsentParams),
     Call("get_prompt", "prompts/get",
          MkParams("obj", "helpful_assistant", Absent, "absent", Absent, Absent, Absent))}

\* a child: the server's state, the requests in its stdin pipe, the lines in
\* the StreamReader of its stdout, whether that stream is at end of file, the
\* coroutine suspended in readline on it, and whether the server has written
\* a response without error to an initialize request
NoProc ==
    [state |-> "unspawned", stdin |-> <<>>, stdout |-> <<>>, eof |-> FALSE,
     waiter |-> None, initOk |-> FALSE]

FreshProc == [NoProc EXCEPT !.state = "running"]

\* a coroutine: where it is, the method it is in, the id send_request wrote,
\* the child whose stdout it reads, the time since the call began (elapsed)
\* and the time since its wait_for began (timer)
IdleTask ==
    [pc |-> "idle", op |-> "none", sent |-> NullId, rp |-> None,
     elapsed |-> 0, timer |-> 0]

\* a finished call: the coroutine, the method, the id send_request wrote, the
\* response send_request returned or the exception that was raised, and what
\* the method returned ("True", "False", "returned") or that it raised
NoCall ==
    [task |-> None, op |-> "none", sent |-> NullId, resp |-> NoResponse,
     exc |-> "", res |-> ""]

ClientInit ==
    /\ request_id = 0
    /\ process = None
    /\ initialized = FALSE
    /\ nprocs = 0
    /\ procs = [p \in 1..MaxProcs |-> NoProc]
    /\ tasks = [t \in Tasks |-> IdleTask]
    /\ last = NoCall

\* the strings that callers pass and tools return
WireStrings ==
    {<<>>, <<"hi">>, <<"say", " ", "\"", "hi", "\"">>, <<"C:", "\\", "temp">>,
     <<"two", "\n", "lines">>, <<"caf", "U+00E9">>, <<"hi", " ">>, <<" ", "hi">>,
     <<"\n">>}

\* the request ids of the wire
WireIds == 1..MaxId

\* what the methods of the client pass to send_request: the method and the
\* params, an empty dict where there are none
ClientRequests ==
    {[method |-> "initialize",
      params |-> JObj(<<M("protocolVersion", S("2024-11-05")),
                        M("capabilities", JObj(<<>>)),
                        M("clientInfo", JObj(<<M("name", S("tutorial-mcp-client")),
                                               M("version", S("1.0.0"))>>))>>)],
     [method |-> "tools/list", params |-> JObj(<<>>)],
     [method |-> "resources/list", params |-> JObj(<<>>)],
     [method |-> "prompts/list", params |-> JObj(<<>>)],
     [method |-> "tools/call",
      params |-> JObj(<<M("name", S("get_time")), M("arguments", JObj(<<>>))>>)],
     [method |-> "resources/read",
      params |-> JObj(<<M("uri", S("resource://greeting"))>>)],
     [method |-> "prompts/get",
      params |-> JObj(<<M("name", S("helpful_assistant")),
                        M("arguments", JObj(<<M("topic", S("python"))>>))>>)]}
    \cup {[method |-> "tools/call",
           params |-> JObj(<<M("name", S("echo")),
                             M("arguments", JObj(<<M("message", JStr(s))>>))>>)] :
            s \in WireStrings}
    \cup {[method |-> "tools/call",
           params |-> JObj(<<M("name", S("calculate")),
                             M("arguments", JObj(<<M("expression", S(e))>>))>>)] :
            e \in Expressions}

\* the dict send_request builds: "if params:" leaves an empty dict out
RequestMessage(id, method, params) ==
    JObj(<<M("jsonrpc", S("2.0")), M("id", JInt(id)), M("method", S(method))>>
         \o (IF params = JObj(<<>>) THEN <<>> ELSE <<M("params", params)>>))

Requests ==
    {RequestMessage(id, r.method, r.params) : id \in WireIds, r \in ClientRequests}

\* the result of a tool call with this text
ContentResult(text) ==
    JObj(<<M("content", JList(<<JObj(<<M("type", S("text")), M("text", JStr(text))>>)>>))>>)

\* the results and errors the handlers of the server return
ServerResults ==
    {ContentResult(<<"Echo: ">> \o s) : s \in WireStrings}
    \cup {ContentResult(<<"20">>),
          ContentResult(<<"Error calculating: division by zero">>),
          JObj(<<M("prompts",
                   JList(<<JObj(<<M("name", S("helpful_assistant")),
                                  M("description", S("A helpful assistant prompt")),
                                  M("arguments",
                                    JList(<<JObj(<<M("name", S("topic")),
                                                   M("description",
                                                     S("The topic to be helpful about")),
                                                   M("required", JBool(FALSE))>>)>>))>>)>>))>>)}

ServerErrors ==
    {JObj(<<M("code", JInt(-32601)), M("message", S("Method not found: ping"))>>),
     JObj(<<M("code", JInt(-32602)), M("message", S("Unknown tool: no_such_tool"))>>),
     JObj(<<M("code", JInt(-32603)),
            M("message", JStr(<<"Internal error: ", "'list' object has no attribute 'get'">>))>>)}

\* the id of a response: the id of the request, null where it had none
IdValue(id) == IF id = NullId THEN JNull ELSE JInt(id)

Responses ==
    {JObj(<<M("jsonrpc", S("2.0")), M("id", IdValue(id)), M("result", r)>>) :
        id \in {NullId} \cup WireIds, r \in ServerResults}
    \cup {JObj(<<M("jsonrpc", S("2.0")), M("id", IdValue(id)), M("error", e)>>) :
        id \in {NullId} \cup WireIds, e \in ServerErrors}

\* nothing was sent yet
NoWire == [dir |-> "none", msg |-> JNull, line |-> <<>>, decoded |-> JSONDecodeError]

WireInit == wire = NoWire

Init == SrvInit /\ ClientInit /\ WireInit

CanCall(t) == tasks[t].pc = "idle"

\* the call of coroutine t ends
Done(t, op, sent, resp, exc, res) ==
    /\ last' = [task |-> t, op |-> op, sent |-> sent, resp |-> resp,
                exc |-> exc, res |-> res]
    /\ tasks' = [tasks EXCEPT ![t] = IdleTask]

\* a get_next_id that returns the next number without storing it
get_next_id_unstored(rid) == [request_id |-> rid, id |-> rid + 1]

\* get_next_id: self.request_id += 1; return self.request_id.  The result is
\* the new value of self.request_id and the id returned; there is no await
\* between the two statements, so no other coroutine runs in between
get_next_id(rid) == [request_id |-> rid + 1, id |-> rid + 1]

\* "if not self.initialized" at the head of a gated method
GateUnchecked(op) == op \in GatedOps /\ op # "get_prompt" /\ ~initialized

GateClosed(op) == op \in GatedOps /\ ~initialized

\* the process is dead: the child has exited and its pipes are closed
Killed(pr) == [pr EXCEPT !.state = "exited", !.stdin = <<>>, !.eof = TRUE, !.waiter = None]

\* The client reaches a child through self.process or through the stream a
\* suspended call reads.  The pipes of a child that neither refers to can no
\* longer be written or read by the client: their contents are dropped from
\* the state (the child itself stays as it is).  finishing: the coroutines
\* whose call ends in this step.
Held(p, proc, finishing) ==
    p = proc \/ \E u \in Tasks \ finishing : tasks[u].rp = p

Settle(prs, proc, finishing) ==
    [p \in DOMAIN prs |->
        IF Held(p, proc, finishing) THEN prs[p]
        ELSE [prs[p] EXCEPT !.stdin = <<>>, !.stdout = <<>>, !.waiter = None]]

\* the coroutine suspended in readline on the stream is made runnable again
Woken(tk, w) == IF w = None THEN tk ELSE [tk EXCEPT ![w].pc = "read"]


(***************************************************************************)
(* What the calling method makes of send_request's outcome.                *)
(*   initialize: False on an error response and on every exception,        *)
(*               otherwise initialized = True                              *)
(*   the gated methods: raise on an error response, else return            *)
(***************************************************************************)
Outcome(op, resp, exc) ==
    IF op = "initialize" THEN
        IF exc # "" \/ resp.hasError THEN "False" ELSE "True"
    ELSE IF exc # "" THEN "raised"
    ELSE IF op \in GatedOps /\ resp.hasError THEN "raised"
    ELSE "returned"

Finished(t, resp, exc) ==
    Done(t, tasks[t].op, tasks[t].sent, resp, exc, Outcome(tasks[t].op, resp, exc))

InitializedAfter(t, resp, exc) ==
    IF tasks[t].op = "initialize" /\ Outcome("initialize", resp, exc) = "True"
    THEN TRUE ELSE initialized

(***************************************************************************)
(* A call of send_request or of a method built on it, up to its first      *)
(* suspension: the gate of the gated methods, the "Not connected" check,   *)
(* get_next_id, and the write of the request line to the child's stdin.    *)
(* self.process.stdout is evaluated when the readline coroutine is made,   *)
(* so the stream the call reads is the one of the child it wrote to.       *)
(***************************************************************************)
Send(t, c) ==
    /\ CanCall(t)
    /\ IF GateClosed(c.op) THEN
            /\ Done(t, c.op, NullId, NoResponse, "Client not initialized", "raised")
            /\ UNCHANGED <<request_id, procs>>
       ELSE IF process = None THEN
            /\ Done(t, c.op, NullId, NoResponse, "Not connected to server",
                    Outcome(c.op, NoResponse, "Not connected to server"))
            /\ UNCHANGED <<request_id, procs>>
       ELSE
            /\ request_id < MaxId
            /\ LET n == get_next_id(request_id) IN
                /\ request_id' = n.request_id
                /\ procs' = [procs EXCEPT ![process].stdin =
                       IF procs[process].state \in {"running", "hung"}
                       THEN Append(@, [id |-> n.id, method |-> c.method,
                                       params |-> c.params])
                       ELSE @]
                /\ tasks' = [tasks EXCEPT ![t] =
                       [pc |-> "drain", op |-> c.op, sent |-> n.id, rp |-> process,
                        elapsed |-> 0, timer |-> 0]]
            /\ UNCHANGED last
    /\ UNCHANGED <<process, initialized, nprocs>>
    /\ UNCHANGED <<srvVars, wire>>

\* send_request raises exc; initialize catches it and returns False
Fails(t, exc) ==
    /\ Finished(t, NoResponse, exc)
    /\ UNCHANGED initialized

(***************************************************************************)
(* StreamReader.readline on the stdout of child p: a buffered line is      *)
(* returned, end of file gives b'' ("Server closed connection"), a second  *)
(* coroutine that would have to wait gets RuntimeError, and otherwise the  *)
(* coroutine is suspended until data or end of file arrives.               *)
(***************************************************************************)
\* a readline whose b'' goes on to json.loads
ReadAttempt_NoEOFCheck(t, p) ==
    IF procs[p].stdout # <<>> THEN
        LET response == Head(procs[p].stdout) IN
        /\ procs' = Settle([procs EXCEPT ![p].stdout = Tail(@)], process, {t})
        /\ Finished(t, response, "")
        /\ initialized' = InitializedAfter(t, response, "")
    ELSE IF procs[p].eof THEN
        Fails(t, "Invalid JSON response") /\ procs' = Settle(procs, process, {t})
    ELSE IF procs[p].waiter # None THEN
        Fails(t, "RuntimeError") /\ procs' = Settle(procs, process, {t})
    ELSE
        /\ procs' = [procs EXCEPT ![p].waiter = t]
        /\ tasks' = [tasks EXCEPT ![t].pc = "waiting"]
        /\ UNCHANGED <<initialized, last>>

ReadAttempt(t, p) ==
    IF procs[p].stdout # <<>> THEN
        LET response == Head(procs[p].stdout) IN
        /\ procs' = Settle([procs EXCEPT ![p].stdout = Tail(@)], process, {t})
        /\ Finished(t, response, "")
        /\ initialized' = InitializedAfter(t, response, "")
    ELSE IF procs[p].eof THEN
        Fails(t, "Server closed connection") /\ procs' = Settle(procs, process, {t})
    ELSE IF procs[p].waiter # None THEN
        Fails(t, "RuntimeError") /\ procs' = Settle(procs, process, {t})
    ELSE
        /\ procs' = [procs EXCEPT ![p].waiter = t]
        /\ tasks' = [tasks EXCEPT ![t].pc = "waiting"]
        /\ UNCHANGED <<initialized, last>>

\* drain() returns once the write buffer has emptied into the pipe: it stays
\* suspended, with no timeout, while the child leaves more than the pipe
\* holds unread
DrainReturns(pr) == Len(pr.stdin) <= PipeCapacity

\* await stdin.drain(), then wait_for(readline): drain raises when the child
\* is gone and the transport has seen it
Drain(t) ==
    /\ tasks[t].pc = "drain"
    /\ \/ /\ procs[tasks[t].rp].state = "exited"
          /\ Fails(t, "ConnectionResetError")
          /\ procs' = Settle(procs, process, {t})
       \/ /\ DrainReturns(procs[tasks[t].rp])
          /\ ReadAttempt(t, tasks[t].rp)
    /\ UNCHANGED <<request_id, process, nprocs>>
    /\ UNCHANGED <<srvVars, wire>>

\* the coroutine woken in readline looks at the buffer again
Reread(t) ==
    /\ tasks[t].pc = "read"
    /\ ReadAttempt(t, tasks[t].rp)
    /\ UNCHANGED <<request_id, process, nprocs>>
    /\ UNCHANGED <<srvVars, wire>>

\* wait_for's timer fires and cancels the suspended readline: "Request timed
\* out"
Timeout(t) ==
    /\ tasks[t].pc = "waiting"
    /\ tasks[t].timer = RequestTimeout
    /\ procs' = Settle([procs EXCEPT ![tasks[t].rp].waiter = None], process, {t})
    /\ Fails(t, "Request timed out")
    /\ UNCHANGED <<request_id, process, nprocs>>
    /\ UNCHANGED <<srvVars, wire>>

\* the child p and the coroutine that reads its stdout after the iteration
\* it of the server on the request req: a response or the end of the process
\* wakes the coroutine suspended in readline
ServerDid(p, req, it) ==
    /\ procs' = [procs EXCEPT ![p] =
          [state |-> StateAfter(it.act),
           stdin |-> IF it.act = "exit" THEN <<>> ELSE Tail(@.stdin),
           stdout |-> IF it.act = "write" THEN Append(@.stdout, it.response)
                      ELSE @.stdout,
           eof |-> it.act = "exit",
           waiter |-> IF it.act \in {"write", "exit"} THEN None ELSE @.waiter,
           initOk |-> \/ @.initOk
                      \/ /\ it.act = "write"
                         /\ req.method = "initialize"
                         /\ ~it.response.hasError]]
    /\ tasks' = IF it.act \in {"write", "exit"} THEN Woken(tasks, procs[p].waiter)
                ELSE tasks

\* the server in child p handles the next line of its stdin (no call of the
\* model makes a handler print: it.stray is empty here; none evaluates an
\* expression that touches the instance: the child's instance stays as
\* MCPServer() made it)
ServerStep(p) ==
    /\ procs[p].state = "running"
    /\ procs[p].stdin # <<>>
    /\ ServerDid(p, Head(procs[p].stdin), LoopBody(MCPServer, RequestLine(Head(procs[p].stdin))))
    /\ UNCHANGED <<request_id, process, initialized, nprocs, last>>
    /\ UNCHANGED <<srvVars, wire>>

\* connect_to_server: the child is spawned and assigned to self.process
Connect(t) ==
    /\ CanCall(t)
    /\ nprocs < MaxProcs
    /\ nprocs' = nprocs + 1
    /\ procs' = Settle([procs EXCEPT ![nprocs + 1] = FreshProc], nprocs + 1, {t})
    /\ process' = nprocs + 1
    /\ Done(t, "connect_to_server", NullId, NoResponse, "", "True")
    /\ UNCHANGED <<request_id, initialized>>
    /\ UNCHANGED <<srvVars, wire>>

\* a connect_to_server that lets the exception of create_subprocess_exec out
ConnectFail_Raises(t) ==
    /\ CanCall(t)
    /\ Done(t, "connect_to_server", NullId, NoResponse, "FileNotFoundError", "raised")
    /\ UNCHANGED <<request_id, process, initialized, nprocs, procs>>
    /\ UNCHANGED <<srvVars, wire>>

\* connect_to_server: create_subprocess_exec raises, False is returned
ConnectFail(t) ==
    /\ CanCall(t)
    /\ Done(t, "connect_to_server", NullId, NoResponse, "", "False")
    /\ UNCHANGED <<request_id, process, initialized, nprocs, procs>>
    /\ UNCHANGED <<srvVars, wire>>

\* disconnect, up to "await self.process.wait()"; terminate() raises
\* ProcessLookupError on a child the transport knows to have exited
DisconnectStart(t) ==
    /\ CanCall(t)
    /\ IF process = None THEN
            /\ initialized' = FALSE
            /\ Done(t, "disconnect", NullId, NoResponse, "", "returned")
            /\ UNCHANGED procs
       ELSE \/ /\ procs[process].state = "exited"
               /\ Done(t, "disconnect", NullId, NoResponse, "ProcessLookupError", "raised")
               /\ UNCHANGED <<initialized, procs>>
            \/ /\ procs' = [procs EXCEPT ![process] = Killed(@)]
               /\ tasks' = Woken([tasks EXCEPT ![t] =
                      [pc |-> "terminating", op |-> "disconnect", sent |-> NullId,
                       rp |-> process, elapsed |-> 0, timer |-> 0]],
                      procs[process].waiter)
               /\ UNCHANGED <<initialized, last>>
    /\ UNCHANGED <<request_id, process, nprocs>>
    /\ UNCHANGED <<srvVars, wire>>

\* disconnect after the wait: self.process = None, self.initialized = False
DisconnectFinish(t) ==
    /\ tasks[t].pc = "terminating"
    /\ process' = None
    /\ initialized' = FALSE
    /\ procs' = Settle(procs, None, {t})
    /\ Done(t, "disconnect", NullId, NoResponse, "", "returned")
    /\ UNCHANGED <<request_id, nprocs>>
    /\ UNCHANGED <<srvVars, wire>>

\* the coroutine can run now: drain() has returned or raised, or readline was
\* woken
Runnable(t) ==
    \/ tasks[t].pc = "read"
    \/ /\ tasks[t].pc = "drain"
       /\ \/ DrainReturns(procs[tasks[t].rp])
          \/ procs[tasks[t].rp].state = "exited"

\* the clocks of a call after d more time units
Later(tk, d) ==
    [tk EXCEPT !.elapsed = IF @ + d > RequestTimeout THEN Late ELSE @ + d,
               !.timer = IF tk.pc = "waiting" THEN @ + d ELSE @]

\* d time units pass while calls are suspended.  The event loop runs every
\* runnable coroutine and every timer that is due before it sleeps again:
\* time does not pass while a coroutine is runnable, nor beyond the timeout
\* of a wait_for
Tick(units) ==
    /\ \E t \in Tasks : tasks[t].pc \in {"drain", "waiting"}
    /\ \A t \in Tasks : ~Runnable(t)
    /\ \E d \in units :
        /\ \A t \in Tasks :
              tasks[t].pc = "waiting" => tasks[t].timer + d <= RequestTimeout
        /\ tasks' = [t \in Tasks |->
                        IF tasks[t].pc \in {"drain", "waiting"}
                        THEN Later(tasks[t], d) ELSE tasks[t]]
        /\ tasks' # tasks
    /\ UNCHANGED <<request_id, process, initialized, nprocs, procs, last>>
    /\ UNCHANGED <<srvVars, wire>>

\* the untimed specifications see the clock at the grain of the timeout
CoarseUnits == {RequestTimeout}

\* the timed specification sees every time unit
FineUnits == {1}

\* a step of the client's world: a coroutine of T moves (its calls drawn from
\* C), or the server in some child handles a line
Step(T, C) ==
    \/ \E t \in T : \E c \in C : Send(t, c)
    \/ \E t \in T : Drain(t)
    \/ \E t \in T : Reread(t)
    \/ \E t \in T : Timeout(t)
    \/ \E p \in 1..MaxProcs : ServerStep(p)
    \/ \E t \in T : Connect(t)
    \/ \E t \in T : ConnectFail(t)
    \/ \E t \in T : DisconnectStart(t)
    \/ \E t \in T : DisconnectFinish(t)

\* one coroutine calls the client's methods one after the other, as the
\* demo and interactive front ends do
Next == Step({1}, Calls) \/ Tick(CoarseUnits)

Spec == Init /\ [][Next]_vars

\* the calls of the coroutines that share the client concurrently
ConcurrentCalls == {c \in Calls : c.op \in {"send_request", "initialize", "list_tools"}}

ConcurrentNext == Step(Tasks, ConcurrentCalls) \/ Tick(CoarseUnits)

\* two coroutines call the client's methods concurrently
SpecConcurrent == Init /\ [][ConcurrentNext]_vars

\* the calls of the coroutines that interleave raw send_request calls
InterleavedCalls == {c \in Calls : c.op = "send_request"}

InterleavedNext == Step(Tasks, InterleavedCalls) \/ Tick(CoarseUnits)

\* two coroutines interleave send_request, connect_to_server and disconnect
SpecInterleaved == Init /\ [][InterleavedNext]_vars

TimedNext == Step({1}, InterleavedCalls) \/ Tick(FineUnits)

\* one coroutine calls send_request, connect_to_server and disconnect, and
\* time passes one unit at a time
SpecTimed == Init /\ [][TimedNext]_vars

\* the calls that the commands of interactive_client make: tools, echo
\* <message>, calc <expression>, time, resources, greeting and prompts
CommandCalls ==
    {Call("list_tools", "tools/list", AbsentParams),
     Call("call_tool", "tools/call",
          MkParams("obj", "echo", Absent, "obj", "hi", Absent, Absent)),
     Call("call_tool", "tools/call",
          MkParams("obj", "calculate", Absent, "obj", Absent, "10 + 5 * 2", Absent)),
     Call("call_tool", "tools/call",
          MkParams("obj", "calculate", Absent, "obj", Absent, "exit()", Absent)),
     Call("call_tool", "tools/call",
          MkParams("obj", "get_time", Absent, "obj", Absent, Absent, Absent)),
     Call("list_resources", "resources/list", AbsentParams),
     Call("read_resource", "resources/read",
          MkParams("obj", Absent, "resource://greeting", "absent", Absent, Absent, Absent)),
     Call("list_prompts", "prompts/list", AbsentParams)}

\* where interactive_client is, read off the call that ended last
\* nothing was called yet
AtStart == last = NoCall

\* connect_to_server returned True
Connected == last.op = "connect_to_server" /\ last.res = "True"

\* the loop is at input(): initialize returned True, or the call of the last
\* command returned
Prompting ==
    \/ last.op = "initialize" /\ last.res = "True"
    \/ last.op \in GatedOps /\ last.res = "returned"

\* the call of the last command raised
CommandFailed == last.op \in GatedOps /\ last.res = "raised"

\* a command that calls the client is entered at the prompt
InteractiveCommand == Prompting /\ \E c \in CommandCalls : Send(1, c)

\* interactive_client: connect_to_server and initialize (the function
\* returns when either gives False), then the command loop inside "try:";
\* quit breaks out of the loop, an exception leaves it through "except",
\* and "finally" disconnects in both cases
InteractiveNext ==
    \/ AtStart /\ Connect(1)
    \/ AtStart /\ ConnectFail(1)
    \/ Connected /\ Send(1, Call("initialize", "initialize", InitializeParams))
    \/ InteractiveCommand
    \/ (Prompting \/ CommandFailed) /\ DisconnectStart(1)
    \/ DisconnectFinish(1)
    \/ Drain(1)
    \/ Reread(1)
    \/ Timeout(1)
    \/ \E p \in 1..MaxProcs : ServerStep(p)
    \/ Tick(CoarseUnits)

\* one interactive session
SpecInteractive == Init /\ [][InteractiveNext]_vars

\* send_request writes json.dumps(request) + "\n"; run_stdio_server reads
\* the line and calls json.loads(line.strip())
ClientWrites(request) ==
    /\ LET line == dumps(request) \o <<"\n">> IN
        wire' = [dir |-> "request", msg |-> request, line |-> line,
                 decoded |-> loads(strip(line))]
    /\ UNCHANGED <<srvVars, clientVars>>

\* run_stdio_server prints json.dumps(response), print adds the newline;
\* send_request reads the line and calls json.loads(line.decode().strip())
ServerPrints(response) ==
    /\ LET line == dumps(response) \o <<"\n">> IN
        wire' = [dir |-> "response", msg |-> response, line |-> line,
                 decoded |-> loads(strip(line))]
    /\ UNCHANGED <<srvVars, clientVars>>

WireNext ==
    \/ \E request \in Requests : ClientWrites(request)
    \/ \E response \in Responses : ServerPrints(response)

\* messages cross the wire in both directions
SpecWire == Init /\ [][WireNext]_vars

SrvNext == ServerIteration

\* run_stdio_server on arbitrary input lines
SpecServer == Init /\ [][SrvNext]_vars

(***************************************************************************)
(* Properties of the client.                                               *)
(***************************************************************************)
\* send_request returned a response to the call that finished last
Returned == last.resp.hasResult \/ last.resp.hasError

\* the coroutines inside send_request whose request is written and whose
\* call has not resolved
Pending == {t \in Tasks : tasks[t].pc \in {"drain", "read", "waiting"}}

\* C1: every response send_request returns carries the id of the request that
\* this call wrote; a response that arrives after its call timed out is never
\* returned to a later call.
C1_ResponseMatchesRequest == Returned => last.resp.id = last.sent

\* C2: a send_request issued while another one of the same client is pending
\* waits or fails before it writes: at no time are two requests of the client
\* outstanding.
C2_AtMostOnePending == Cardinality(Pending) <= 1

\* a gated method is called by coroutine t in this step
GatedCallBy(t) ==
    /\ tasks[t].pc = "idle"
    /\ \/ tasks'[t].pc # "idle" /\ tasks'[t].op \in GatedOps
       \/ last' # last /\ last'.task = t /\ last'.op \in GatedOps

\* C9: a gated method called while the client is not initialized fails with
\* "Client not initialized"; it writes nothing to any pipe and takes no
\* request id.
C9_GatedCallsFailLocally ==
    [][\A t \in Tasks :
         (~initialized /\ GatedCallBy(t)) =>
            /\ tasks'[t].pc = "idle"
            /\ last'.task = t
            /\ last'.exc = "Client not initialized"
            /\ last'.res = "raised"
            /\ last'.sent = NullId
            /\ request_id' = request_id
            /\ procs' = procs]_vars

\* C9 happens: a gated method was refused on a connected client that has not
\* been initialized
C9_Witness ==
    /\ last.op \in GatedOps
    /\ last.exc = "Client not initialized"
    /\ process # None
    /\ ~initialized

\* C10: initialized is true only if the child the client holds has answered
\* an initialize request of this connection with a response without error.
C10_InitializedMeansHandshake ==
    initialized => (process # None /\ procs[process].initOk)

\* the ids of the requests in a pipe
IdsOf(pipe) == [i \in DOMAIN pipe |-> pipe[i].id]

StrictlyIncreasing(ids) ==
    \A i, j \in DOMAIN ids : i < j => ids[i] < ids[j]

\* coroutine t writes a request in this step
WritesRequest(t) == tasks[t].pc = "idle" /\ tasks'[t].pc = "drain"

\* C11: the request ids a client writes are strictly increasing and pairwise
\* distinct: request_id never goes down, not at a timeout, a failed call, a
\* disconnect or a reconnect; every id written is larger than request_id was
\* before the write, and request_id takes its value at that write, also when
\* calls interleave; the requests that lie in a pipe have increasing ids.
C11_IdsStrictlyIncrease ==
    [][/\ request_id' >= request_id
       /\ \A t \in Tasks :
            WritesRequest(t) =>
                /\ tasks'[t].sent > request_id
                /\ tasks'[t].sent = request_id'
       /\ \A p \in 1..MaxProcs :
            /\ Len(procs'[p].stdin) > Len(procs[p].stdin) =>
                    /\ procs'[p].stdin[Len(procs'[p].stdin)].id > request_id
                    /\ procs'[p].stdin[Len(procs'[p].stdin)].id = request_id'
            /\ StrictlyIncreasing(IdsOf(procs'[p].stdin))]_vars

\* C11 happens: two calls of two coroutines are pending at once with
\* different ids, on the second child the client spawned, the third id
\* having been written
C11_Witness ==
    /\ Cardinality(Pending) = 2
    /\ tasks[1].sent # tasks[2].sent
    /\ nprocs = 2
    /\ request_id = 3

\* disconnect terminates the child in this step
DisconnectExecutes ==
    \E d \in Tasks : tasks[d].pc = "idle" /\ tasks'[d].pc = "terminating"

\* coroutine t is runnable again in readline, on a stream at end of file with
\* nothing buffered
Unblocked(t) ==
    /\ tasks[t].pc = "read"
    /\ procs[tasks[t].rp].eof
    /\ procs[tasks[t].rp].stdout = <<>>

\* the call of coroutine t ends in this step with "Server closed connection"
FailsClosed(t) ==
    /\ tasks'[t].pc = "idle"
    /\ last'.task = t
    /\ last'.exc = "Server closed connection"

\* C12: when disconnect is executed while a send_request is suspended waiting
\* for its response, that call is made runnable on a closed stream, and the
\* next thing it does is fail with "Server closed connection".
C12_DisconnectUnblocksPending ==
    [][/\ DisconnectExecutes =>
            \A t \in Tasks : tasks[t].pc = "waiting" => Unblocked(t)'
       /\ \A t \in Tasks : Unblocked(t) => (Unblocked(t)' \/ FailsClosed(t))]_vars

InFlight(t) == tasks[t].pc \in {"drain", "read", "waiting"}

\* the call of coroutine t ends in this step with "Request timed out"
TimesOut(t) ==
    /\ InFlight(t)
    /\ tasks'[t].pc = "idle"
    /\ last'.task = t
    /\ last'.exc = "Request timed out"

\* the call of coroutine t ends in this step, in its read step, with a reply
\* in its stream
EndsWithReplyAvailable(t) ==
    /\ tasks[t].pc \in {"read", "waiting"}
    /\ tasks'[t].pc = "idle"
    /\ procs[tasks[t].rp].stdout # <<>>

\* C14: a send_request that gets no reply fails with "Request timed out"
\* when 10 time units have passed since the call was made: never before, and
\* no call is still in flight once more than 10 units have passed; a call
\* whose read step ends while a reply is available returns that reply, not a
\* timeout.
C14_TimeoutAtTheBound ==
    [][\A t \in Tasks :
        /\ TimesOut(t) => tasks[t].elapsed = RequestTimeout
        /\ InFlight(t)' => tasks'[t].elapsed <= RequestTimeout
        /\ EndsWithReplyAvailable(t) =>
                (last'.exc = "" /\ last'.resp = Head(procs[tasks[t].rp].stdout))]_vars

\* disconnect is called by coroutine t in this step
DisconnectCalledBy(t) ==
    /\ tasks[t].pc = "idle"
    /\ \/ tasks'[t].pc = "terminating"
       \/ last' # last /\ last'.task = t /\ last'.op = "disconnect"

\* the call that ended last is a disconnect of coroutine t, which has made
\* no call since
DisconnectJustEnded(t) ==
    /\ last.op = "disconnect"
    /\ last.task = t
    /\ tasks[t].pc = "idle"

\* C18: disconnect is idempotent.  Called on a client that is already
\* disconnected it raises nothing and changes nothing: process stays unset,
\* initialized false, request_id and the children as they were.  And a
\* disconnect that has ended leaves the client disconnected and has raised
\* nothing, so that the same holds of a second call right after it.
C18_DisconnectIdempotent ==
    [][\A t \in Tasks :
        /\ (process = None /\ DisconnectCalledBy(t)) =>
                /\ last'.exc = "" /\ last'.res = "returned"
                /\ tasks'[t].pc = "idle"
                /\ process' = None
                /\ ~initialized'
                /\ request_id' = request_id
                /\ procs' = procs
        /\ DisconnectJustEnded(t)' =>
                /\ last'.exc = ""
                /\ process' = None
                /\ ~initialized']_vars

\* C19: disconnect always completes: a disconnect that has begun to wait for
\* the child can always finish, and a disconnect that has ended has raised
\* nothing, the child it was called on has exited and process is unset.
C19_DisconnectCompletes ==
    \A t \in Tasks :
        /\ tasks[t].pc = "terminating" =>
                (procs[tasks[t].rp].state = "exited" /\ ENABLED DisconnectFinish(t))
        /\ DisconnectJustEnded(t) => (last.exc = "" /\ process = None)

\* the children the client spawned that have not exited
Alive == {p \in 1..MaxProcs : procs[p].state \in {"running", "hung"}}

\* C20: the client owns at most one child at any time: every child it
\* spawned that is still alive is the one self.process refers to.
C20_AtMostOneChild ==
    /\ Cardinality(Alive) <= 1
    /\ \A p \in Alive : process = p

(***************************************************************************)
(* Properties of the server, on the line read last.                        *)
(***************************************************************************)
LastIsRequest == srvLast.line.kind = "request"

LastRequest == srvLast.line.req

LastResponse == srvLast.it.response

\* the iteration wrote a response line
Wrote == srvLast.it.act = "write"

\* a request with its method field
WellFormedRequest == LastIsRequest /\ LastRequest.method # Absent

\* the value of a named argument of tools/call
Argument(params, key) ==
    IF key = "message" THEN params.message ELSE params.expression

\* params that name a known tool, resource or prompt and whose arguments, if
\* any, are an object
WellFormedParams(request) ==
    LET params == ParamsOf(request) IN
    /\ params.shape = "obj"
    /\ params.args # "nonobj"
    /\ request.method = "tools/call" => params.name \in ToolNames
    /\ request.method = "resources/read" => params.uri \in ResourceUris
    /\ request.method = "prompts/get" => params.name \in PromptNames

\* the name or uri of the request is absent from the catalog of its method
NotInCatalog(request) ==
    LET params == ParamsOf(request) IN
    /\ params.shape = "obj"
    /\ \/ request.method = "tools/call" /\ params.name \notin ToolNames
       \/ request.method = "resources/read" /\ params.uri \notin ResourceUris
       \/ request.method = "prompts/get" /\ params.name \notin PromptNames

\* an error response with this code and the id of the request
ErrorFor(request, code) ==
    /\ Wrote
    /\ LastResponse.hasError
    /\ ~LastResponse.hasResult
    /\ LastResponse.code = code
    /\ LastResponse.id = request.id

\* C3: no input line stops the server loop: after any line the server is
\* still running, and a well-formed request has received its response.
C3_NoLineStopsTheServer ==
    /\ srvState = "running"
    /\ WellFormedRequest => (Wrote /\ LastResponse.id = LastRequest.id)

\* C4: a request with a registered method and well-formed params gets a
\* success response (result present, error absent) with the request's id.
C4_RegisteredMethodSucceeds ==
    (LastIsRequest /\ LastRequest.method \in RegisteredMethods
        /\ WellFormedParams(LastRequest))
    => /\ Wrote
       /\ LastResponse.hasResult
       /\ ~LastResponse.hasError
       /\ LastResponse.id = LastRequest.id

\* C5: a request whose method is not registered gets an error response with
\* code -32601, a message naming the method and the request's id, and no
\* handler is invoked.
C5_UnknownMethodNotFound ==
    (LastIsRequest /\ LastRequest.method \notin RegisteredMethods)
    => /\ ErrorFor(LastRequest, -32601)
       /\ LastResponse.message = <<"Method not found: ", PyStr(LastRequest.method)>>
       /\ srvLast.it.handler = "none"
       /\ srvState = "running"

\* C5 happens: the method "ping" was refused
C5_Witness ==
    /\ LastIsRequest
    /\ LastRequest.method = "ping"
    /\ LastRequest.id = 2
    /\ Wrote
    /\ LastResponse.hasError

\* C6: when the handler of a registered method fails, handle_request returns
\* an error response with code -32603, the failure's description and the
\* request's id; the failure does not leave handle_request.
C6_HandlerFailureBecomesInternalError ==
    (LastIsRequest /\ LastRequest.method \in RegisteredMethods
        /\ srvLast.it.handlerDid \in {"raise", "exit"})
    => /\ ErrorFor(LastRequest, -32603)
       /\ Len(LastResponse.message) = 2
       /\ LastResponse.message[1] = "Internal error: "

\* C7: tools/call, resources/read and prompts/get with a name or uri that is
\* not in the catalog get an error response with code -32602 and the
\* request's id.
C7_UnknownNameInvalidParams ==
    (LastIsRequest /\ NotInCatalog(LastRequest)) => ErrorFor(LastRequest, -32602)

\* C7 happens: resources/read of resource://unknown was answered with -32602
C7_Witness ==
    /\ LastIsRequest
    /\ LastRequest.method = "resources/read"
    /\ LastRequest.params.uri = "resource://unknown"
    /\ LastRequest.id = 1
    /\ Wrote
    /\ LastResponse.code = -32602

\* the line read in this step is a request that is not a tools/call
ReadsPlainRequest ==
    /\ srvLast'.line.kind = "request"
    /\ srvLast'.line.req.method # "tools/call"

\* C15: for a line that is not valid JSON the server writes nothing, logs the
\* failure and keeps running; the line it reads next is answered: a request
\* (other than a tools/call, which runs a tool) gets a response with its id.
C15_UndecodableLineSkipped ==
    [][/\ srvLast'.line.kind = "garbage" =>
            /\ srvWritten' = srvWritten
            /\ srvDecoded' = srvDecoded
            /\ srvLast'.it.act = "skip"
            /\ srvLast'.it.logged
            /\ srvState' = "running"
       /\ (srvLast.line.kind = "garbage" /\ ReadsPlainRequest) =>
            /\ srvLast'.it.act = "write"
            /\ srvLast'.it.response.id = srvLast'.line.req.id
            /\ srvWritten' = Append(srvWritten, srvLast'.line.req.id)]_vars

\* C15 happens: after a request that was answered, a line that is not JSON
\* was read and nothing was written for it
C15_Witness ==
    /\ srvLast.line.kind = "garbage"
    /\ srvRead = 2
    /\ srvDecoded = <<1>>
    /\ srvWritten = <<1>>
    /\ srvLast.it.logged
    /\ srvState = "running"

\* the line read last is valid JSON but not a well-formed request: not an
\* object, or an object without the method field
NotARequest ==
    \/ srvLast.line.kind = "nonobj"
    \/ LastIsRequest /\ LastRequest.method = Absent

C17_WrittenLinesAreResponses ==
    /\ srvLast.it.stray = <<>>
    /\ Wrote =>
        /\ LastResponse.hasResult # LastResponse.hasError
        /\ LastResponse.hasError =>
                /\ LastResponse.code \in {-32601, -32602, -32603}
                /\ LastResponse.message # <<>>

\* C21: the server answers the lines it decodes one at a time and in order:
\* after every iteration the responses written are, one for one and in the
\* same order, the responses to the values decoded (the k-th response
\* carries the id of the k-th decoded value), and nothing else was written.
C21_OneResponsePerRequestInOrder ==
    /\ srvWritten = srvDecoded
    /\ srvLast.it.stray = <<>>

\* C8: tools/call of a known tool without an argument its schema requires
\* gets an error response with code -32602 and the request's id.
C8_MissingRequiredArgument ==
    (LastIsRequest /\ LastRequest.method = "tools/call"
        /\ WellFormedParams(LastRequest)
        /\ \E key \in ToolRequired(ParamsOf(LastRequest).name) :
               Argument(ParamsOf(LastRequest), key) = Absent)
    => ErrorFor(LastRequest, -32602)

\* the request calls calculate with an expression that holds something
\* other than numeric literals, + - * / and parentheses
CalculatesNonArithmetic ==
    /\ LastIsRequest
    /\ LastRequest.method = "tools/call"
    /\ WellFormedParams(LastRequest)
    /\ ParamsOf(LastRequest).name = "calculate"
    /\ ParamsOf(LastRequest).expression # Absent
    /\ ~IsArithmetic(Tokens(ParamsOf(LastRequest).expression))

\* C22: calculate with an expression that is not pure arithmetic is rejected
\* without being executed: the response is a success response with the
\* request's id whose text begins with "Error calculating", nothing else is
\* written and the server keeps running.
C22_NonArithmeticRejected ==
    CalculatesNonArithmetic =>
        /\ Wrote
        /\ LastResponse.hasResult
        /\ ~LastResponse.hasError
        /\ LastResponse.id = LastRequest.id
        /\ LastResponse.result.text # <<>>
        /\ Head(LastResponse.result.text) = "Error calculating: "
        /\ srvLast.it.stray = <<>>
        /\ srvState = "running"

\* C23: in the interactive session a command whose call fails does not end
\* the session: the loop is back at its prompt and the next command can be
\* entered.
C23_FailedCommandLoopGoesOn ==
    (CommandFailed /\ CanCall(1) /\ request_id < MaxId) => ENABLED InteractiveCommand

\* the call that ended last failed because the server's stream had closed
\* or the write to it failed
StreamFailed == last.exc \in {"Server closed connection", "ConnectionResetError"}

\* coroutine t calls send_request, or a method built on it, in this step
RequestCallBy(t) ==
    /\ tasks[t].pc = "idle"
    /\ \/ tasks'[t].pc = "drain"
       \/ /\ last' # last
          /\ last'.task = t
          /\ last'.op \notin {"connect_to_server", "disconnect"}

\* C24: once a call has failed because the stream closed or the write
\* failed, the client takes the connection for dead: the next call fails
\* locally, with "Not connected to server" or "Client not initialized",
\* takes no request id and writes nothing.
C24_DeadConnectionFailsLocally ==
    [][(StreamFailed /\ RequestCallBy(1)) =>
            /\ tasks'[1].pc = "idle"
            /\ last'.exc \in {"Not connected to server", "Client not initialized"}
            /\ last'.sent = NullId
            /\ request_id' = request_id
            /\ procs' = procs]_vars

(***************************************************************************)
(* The value that arithmetic gives to the well-formed expressions of the   *)
(* model, as the fraction num/den in lowest terms; a division by zero has  *)
(* no value.                                                               *)
(***************************************************************************)
Fraction(num, den) == [defined |-> TRUE, num |-> num, den |-> den]

Undefined == [defined |-> FALSE, num |-> 0, den |-> 1]

WellFormedArithmetic == ArithmeticExpressions \ {"10 + * 2"}

MathValue(expression) ==
    CASE expression = "10 + 5 * 2" -> Fraction(20, 1)
      [] expression = "(10 + 5) * 2" -> Fraction(30, 1)
      [] expression = "10 - 4 - 3" -> Fraction(3, 1)
      [] expression = "2 * 3 - 4 * 5" -> Fraction(-14, 1)
      [] expression = "-3 * (2 + 4)" -> Fraction(-18, 1)
      [] expression = "10 / 2" -> Fraction(5, 1)
      [] expression = "7 / 2" -> Fraction(7, 2)
      [] expression = "1 / 3" -> Fraction(1, 3)
      [] OTHER -> Undefined

\* the expression has a division
Divides(expression) ==
    \E i \in DOMAIN Tokens(expression) : Tokens(expression)[i].k = "/"

\* the decimal numeral of a value: its digits, with a fraction only where
\* the value has one (no numeral of the model's length for a third)
Decimal(v) ==
    IF v.den = 1 THEN ToString(v.num)
    ELSE IF v.den = 2 THEN
        (IF v.num < 0 THEN "-" ELSE "") \o ToString(Abs(v.num) \div 2) \o ".5"
    ELSE "<no finite numeral>"

\* the numeral of the float of a value: a whole number has the fraction ".0"
FloatNumeral(v) ==
    IF v.den = 1 THEN ToString(v.num) \o ".0"
    ELSE IF v.den = 2 THEN Decimal(v)
    ELSE Rounded

\* the request calls calculate with a well-formed arithmetic expression
CalculatesArithmetic ==
    /\ LastIsRequest
    /\ LastRequest.method = "tools/call"
    /\ WellFormedParams(LastRequest)
    /\ ParamsOf(LastRequest).name = "calculate"
    /\ ParamsOf(LastRequest).expression \in WellFormedArithmetic

\* a success response with the id of the request and this text
TextFor(request, text) ==
    /\ Wrote
    /\ LastResponse.hasResult
    /\ ~LastResponse.hasError
    /\ LastResponse.id = request.id
    /\ LastResponse.result.text = text
    /\ srvState = "running"

C26_RoundTrip ==
    wire.dir # "none" => (wire.decoded.ok /\ wire.decoded.val = wire.msg)

\* C26 happens: a request whose echo message holds quotes and a space went
\* over the wire; its line holds the escapes and ends with the newline
C26_Witness ==
    /\ wire.dir = "request"
    /\ \E i \in DOMAIN wire.line : wire.line[i] = "\\" /\ wire.line[i + 1] = "\""
    /\ wire.line[Len(wire.line)] = "\n"
    /\ wire.decoded.ok
    /\ wire.decoded.val = wire.msg

\* C27: when the server reads end of file on its stdin, it leaves the read
\* loop and shuts down; it does not go on looping.
C27_EOFEndsTheLoop == srvLast.line.kind = "eof" => srvState = "exited"

\* the line is empty or holds whitespace only
Blank(line) == line.kind # "request" /\ strip(LineText(line)) = <<>>

\* C28: an empty or whitespace-only line is skipped: no handler is invoked
\* and no response is written for it, and the server keeps running; the line
\* it reads next is processed as usual: a request (other than a tools/call,
\* which runs a tool) gets a response with its id.
C28_BlankLineSkipped ==
    [][/\ Blank(srvLast'.line) =>
            /\ srvWritten' = srvWritten
            /\ srvDecoded' = srvDecoded
            /\ srvLast'.it.act = "skip"
            /\ srvLast'.it.handler = "none"
            /\ ~srvLast'.it.logged
            /\ srvState' = "running"
       /\ (Blank(srvLast.line) /\ ReadsPlainRequest) =>
            /\ srvLast'.it.act = "write"
            /\ srvLast'.it.response.id = srvLast'.line.req.id
            /\ srvWritten' = Append(srvWritten, srvLast'.line.req.id)]_vars

\* C28 happens: after a request that was answered, a line of whitespace was
\* read and nothing was written for it
C28_Witness ==
    /\ srvLast.line.kind = "spaces"
    /\ srvRead = 2
    /\ srvDecoded = <<1>>
    /\ srvWritten = <<1>>
    /\ srvLast.it.act = "skip"
    /\ srvState = "running"

\* the stream that coroutine t waits on reaches end of file in this step
ClosesUnder(t) ==
    /\ tasks[t].pc = "waiting"
    /\ ~procs[tasks[t].rp].eof
    /\ procs'[tasks[t].rp].eof

\* C29: when the server's output reaches end of file while send_request
\* waits for the response, the call is made runnable at once, no time passes
\* before it runs, and what it does next is fail with "Server closed
\* connection": it does not time out, does not fail with "Invalid JSON
\* response" and returns no response.
C29_ClosedStreamFailsTheCall ==
    [][\A t \in Tasks :
        /\ ClosesUnder(t) => Unblocked(t)'
        /\ Unblocked(t) =>
            \/ Unblocked(t)' /\ tasks'[t].elapsed = tasks[t].elapsed
            \/ /\ FailsClosed(t)
               /\ last'.sent = tasks[t].sent
               /\ last'.resp = NoResponse
               /\ last'.res \in {"raised", "False"}]_vars

\* C29 happens: the first call was waiting for its response when disconnect,
\* called by the other coroutine, closed the stream; the call is runnable on
\* the closed stream
C29_Witness ==
    /\ Unblocked(1)
    /\ tasks[1].sent = 1
    /\ tasks[2].pc = "terminating"
    /\ tasks[2].rp = tasks[1].rp

\* a connect_to_server ends in this step without having spawned a child
ConnectFailsNow ==
    /\ last' # last
    /\ last'.op = "connect_to_server"
    /\ nprocs' = nprocs

\* the call that ended last is a connect_to_server that returned False, on
\* a client that holds no child
AfterFailedConnect ==
    /\ last.op = "connect_to_server"
    /\ last.res = "False"
    /\ process = None

\* C30: a connect_to_server whose command cannot be started returns False,
\* raises nothing and leaves request_id, process and initialized as they
\* were; on a client that held no child, process is unset and initialized
\* false after it, and the call that follows fails before it takes a
\* request id or writes: send_request and initialize with "Not connected to
\* server", a gated method with "Client not initialized".
C30_FailedConnectChangesNothing ==
    [][/\ ConnectFailsNow =>
            /\ last'.res = "False"
            /\ last'.exc = ""
            /\ UNCHANGED <<request_id, process, initialized, procs>>
            /\ process = None => ~initialized'
       /\ (AfterFailedConnect /\ RequestCallBy(1)) =>
            /\ tasks'[1].pc = "idle"
            /\ last'.exc = IF last'.op \in GatedOps THEN "Client not initialized"
                           ELSE "Not connected to server"
            /\ last'.sent = NullId
            /\ last'.resp = NoResponse
            /\ UNCHANGED <<request_id, process, initialized, procs>>]_vars

\* C30 happens: on a client that had disconnected from its first server
\* after one request, the next connect_to_server has returned False
C30_Witness ==
    /\ AfterFailedConnect
    /\ last.exc = ""
    /\ nprocs = 1
    /\ request_id = 1
    /\ ~initialized

(***************************************************************************)
(* Properties of the server instance.                                      *)
(***************************************************************************)
ListMethods == {"tools/list", "resources/list", "prompts/list"}

\* the catalog that a list method returns, as the constructor built it
BuiltCatalog(method) ==
    CASE method = "tools/list" -> MCPServer.tools
      [] method = "resources/list" -> MCPServer.resources
      [] OTHER -> MCPServer.prompts

\* C31: no request changes the tools, resources or prompts catalog of the
\* server: after any sequence of requests the instance holds the catalogs
\* its constructor built, and tools/list, resources/list and prompts/list
\* return exactly those.
C31_CatalogsNeverChange ==
    /\ server = MCPServer
    /\ (LastIsRequest /\ LastRequest.method \in ListMethods) =>
          /\ Wrote
          /\ LastResponse.hasResult
          /\ LastResponse.result.items = BuiltCatalog(LastRequest.method)

(***************************************************************************)
(* Properties of the functions that drive the client.                      *)
(***************************************************************************)
\* connect_to_server returned True at some point of the session
ConnectSucceeded == nprocs > 0

\* initialize returned False: "Failed to initialize connection", return
InitializeFailed == last.op = "initialize" /\ last.res = "False"

\* disconnect was called and has ended, by returning or by raising
DisconnectCalled == last.op = "disconnect"

\* interactive_client has returned: after connect_to_server gave False,
\* after initialize gave False, or through "finally"
DriverReturned ==
    \/ last.op = "connect_to_server" /\ last.res = "False"
    \/ InitializeFailed
    \/ DisconnectCalled

\* C32: once connect_to_server has succeeded, the function that drives the
\* client does not return without having called disconnect, whichever way
\* it returns, also when initialize fails or a call raises.
C32_DisconnectBeforeReturn ==
    (ConnectSucceeded /\ DriverReturned) => DisconnectCalled

\* C33: whenever initialize returns False, whatever made it fail (an error
\* response, the timeout, the closed stream, no connection), the client is
\* left not initialized, and every gated method is refused at its gate with
\* "Client not initialized".
C33_FailedInitializeLeavesUninitialized ==
    InitializeFailed =>
        /\ ~initialized
        /\ \A op \in GatedOps : GateClosed(op)

\* C34: in every state of the client, initialized implies that a process
\* handle is attached; and disconnect clears both: once a disconnect has
\* ended, process is unset, initialized is false and every gated method is
\* refused at its gate.
C34_InitializedMeansAttached ==
    /\ initialized => process # None
    /\ \A t \in Tasks :
          DisconnectJustEnded(t) =>
              /\ process = None
              /\ ~initialized
              /\ \A op \in GatedOps : GateClosed(op)

\* the response that a server just constructed gives to the request: the
\* answer that depends on the request alone
FirstAnswer(request) == handle_request(MCPServer, request).did.response

\* C35: the server is stateless with respect to requests: the response to
\* a request is the one a freshly constructed server gives to it, whichever
\* requests (an initialize request or any other) were handled before.
C35_ResponseDependsOnRequestAlone ==
    (LastIsRequest /\ Wrote) => LastResponse = FirstAnswer(LastRequest)

====
